---- MODULE Spec2Model ----
(***************************************************************************)
(* The request-dispatch pipeline of restae/handlers.py:                    *)
(* BaseHandler.apply_dispatch (middleware hooks, route arguments, the      *)
(* centralized error translation) around APIModelHandler.do_dispatch       *)
(* (route matching, key decoding, method check, action invocation) and the *)
(* generic resource actions list / create / retrieve / update /            *)
(* partial_update / destroy.                                               *)
(***************************************************************************)
EXTENDS Integers, Sequences, FiniteSets, TLC

VARIABLES
    middlewares,      \* BaseHandler.middlewares: the cached list of middleware instances
    request,          \* self.request: method, path, body
    routeRegex,       \* self.request.route.regex: the transport route that selected the handler
    urls,             \* self.urls: the registered routes of the handler, in registration order
    pagination_class, \* APIModelBaseHandler.pagination_class ("none" when None)
    store,            \* the storage layer: ids of the persisted objects
    pc,               \* position of apply_dispatch
    idx,              \* index of the next middleware of the running loop
    route_args,       \* self.route_args
    response,         \* the local variable response of apply_dispatch / the value returned
    exc,              \* the exception in flight, caught by the except chain
    trace,            \* what ran so far: hooks, action, collaborator calls
    received,         \* the response objects handed to the after hooks, in order
    hookRet,          \* the values the after hooks returned, in order
    info,             \* what do_dispatch was observed to do: its outcome, the action it
                      \* invoked, the response it returned, the page list() obtained,
                      \* the storage layer before it
    loc,              \* one call of get_object: its arguments, the handler's class
                      \* attributes, the query string, and what the call gave
    other             \* a second dispatch running concurrently on the same middleware
                      \* list: its position and the middlewares it iterated

vars == <<middlewares, request, routeRegex, urls, pagination_class, store, pc, idx,
          route_args, response, exc, trace, received, hookRet, info, loc, other>>

(***************************************************************************)
(* Bounds of the model.                                                    *)
(***************************************************************************)
NumMiddlewares == 2
MaxObj == 2

(***************************************************************************)
(* Requests.                                                               *)
(***************************************************************************)
Methods == {"GET", "POST", "PUT", "PATCH", "DELETE", "OPTIONS"}

\* str.lower() on the request method
Lower(m) ==
    CASE m = "GET" -> "get"
      [] m = "POST" -> "post"
      [] m = "PUT" -> "put"
      [] m = "PATCH" -> "patch"
      [] m = "DELETE" -> "delete"
      [] m = "OPTIONS" -> "options"
      [] OTHER -> m

\* request paths, as sequences of segments
Paths == {<<"r">>, <<"r", "k1">>, <<"r", "bad">>, <<"x">>}

\* request bodies: absent, not JSON, JSON
Bodies == {"", "not-json", "{n:1}"}

(***************************************************************************)
(* Responses and exceptions.                                               *)
(***************************************************************************)
NoResp == [id |-> 0, status |-> 0, text |-> "", data |-> <<>>, kind |-> "none", marks |-> {}]

Resp(i, s, t, d, k) == [id |-> i, status |-> s, text |-> t, data |-> d, kind |-> k, marks |-> {}]

NoExc == [kind |-> "none", msg |-> ""]

Exc(k, m) == [kind |-> k, msg |-> m]

\* the error kinds the except chain names, and "Other" for any other Exception
TableKinds == {"NotFound", "NotAuthorized", "Forbidden", "MissingParameter",
               "BadRequest", "MissingBody", "ValueError", "DispatchError"}

Kinds == TableKinds \cup {"Other"}

Messages == {"", "custom message"}

(***************************************************************************)
(* Routes.  A pattern is a sequence of elements, each a literal segment or *)
(* a named group (?P<name>[^/]+), optionally anchored at its end.          *)
(***************************************************************************)
Lit(s) == [lit |-> s, g |-> ""]

Group(n) == [lit |-> "", g |-> n]

Rx(elems, anchored) == [elems |-> elems, anchored |-> anchored]

\* re.match(regex, path): the pattern matches at the start of the path
ReMatch(rx, path) ==
    /\ Len(rx.elems) <= Len(path)
    /\ rx.anchored => Len(rx.elems) = Len(path)
    /\ \A i \in 1..Len(rx.elems) :
          rx.elems[i].g # "" \/ rx.elems[i].lit = path[i]

\* regex.search(path).groupdict(): group name -> captured segment
GroupDict(rx, path) ==
    LET names == {rx.elems[i].g : i \in {j \in 1..Len(rx.elems) : rx.elems[j].g # ""}}
    IN [n \in names |-> path[CHOOSE i \in 1..Len(rx.elems) : rx.elems[i].g = n]]

get_route_args(rx, req) == GroupDict(rx, req.path)

Url(rx, detail, mapping) == [regex |-> rx, detail |-> detail, mapping |-> mapping]

CollectionRoute ==
    Url(Rx(<<Lit("r")>>, TRUE), FALSE, ("get" :> "list") @@ ("post" :> "create"))

DetailRoute ==
    Url(Rx(<<Lit("r"), Group("urlsafe")>>, TRUE), TRUE,
        ("get" :> "retrieve") @@ ("put" :> "update") @@
        ("patch" :> "partial_update") @@ ("delete" :> "destroy"))

DetailGetOnlyRoute ==
    Url(Rx(<<Lit("r"), Group("urlsafe")>>, TRUE), TRUE, ("get" :> "retrieve"))

\* a collection route whose pattern is not anchored: it also matches detail paths
OpenCollectionRoute ==
    Url(Rx(<<Lit("r")>>, FALSE), FALSE, ("get" :> "list") @@ ("post" :> "create"))

\* a detail route bound to the collection actions and to an action the handler lacks
DetailActionsRoute ==
    Url(Rx(<<Lit("r"), Group("urlsafe")>>, TRUE), TRUE,
        ("get" :> "list") @@ ("post" :> "create") @@ ("delete" :> "undefined_action"))

\* the route lists a handler may be registered with (getattr(self, 'urls', []))
UrlTables ==
    { <<>>,
      <<CollectionRoute, DetailRoute>>,
      <<DetailGetOnlyRoute, DetailRoute, CollectionRoute>>,
      <<OpenCollectionRoute, DetailRoute>>,
      <<DetailActionsRoute, CollectionRoute>> }

\* the patterns of the transport's routes, compiled anchored
TransportRegexes ==
    { Rx(<<Lit("r")>>, TRUE),
      Rx(<<Lit("r"), Group("urlsafe")>>, TRUE),
      Rx(<<Lit("x")>>, TRUE) }

\* MatchedUrl falling back to the first registered route when none matches
MatchedUrlDefaultFirst(urlList, path) ==
    IF \E i \in 1..Len(urlList) : ReMatch(urlList[i].regex, path)
    THEN CHOOSE i \in 1..Len(urlList) :
            /\ ReMatch(urlList[i].regex, path)
            /\ \A j \in 1..(i - 1) : ~ReMatch(urlList[j].regex, path)
    ELSE IF Len(urlList) > 0 THEN 1 ELSE 0

\* MatchedUrl without the break: the last url that matches
MatchedUrlLast(urlList, path) ==
    IF \E i \in 1..Len(urlList) : ReMatch(urlList[i].regex, path)
    THEN CHOOSE i \in 1..Len(urlList) :
            /\ ReMatch(urlList[i].regex, path)
            /\ \A j \in (i + 1)..Len(urlList) : ~ReMatch(urlList[j].regex, path)
    ELSE 0

\* for url in urls: if re.match(url.regex, path_info): matched_url = url; break
\* (0 when no url matches)
MatchedUrl(urlList, path) ==
    IF \E i \in 1..Len(urlList) : ReMatch(urlList[i].regex, path)
    THEN CHOOSE i \in 1..Len(urlList) :
            /\ ReMatch(urlList[i].regex, path)
            /\ \A j \in 1..(i - 1) : ~ReMatch(urlList[j].regex, path)
    ELSE 0

\* self.request.method.lower() not in matched_url.route.mapping.keys()
MethodAllowed(url, method) == Lower(method) \in DOMAIN url.mapping

\* get_key_from_urlsafe: the storage layer's decoding of an opaque key
ValidUrlsafe == {"k1", "k2"}

get_key_from_urlsafe(u) == CASE u = "k1" -> 1 [] u = "k2" -> 2 [] OTHER -> 0

\* route_kwargs['key'] = get_key_from_urlsafe(route_args['urlsafe']) inside try:
\* a missing group (KeyError) and an undecodable value both fail
DecodeKey(rargs) ==
    IF "urlsafe" \in DOMAIN rargs /\ rargs["urlsafe"] \in ValidUrlsafe
    THEN [ok |-> TRUE, key |-> get_key_from_urlsafe(rargs["urlsafe"])]
    ELSE [ok |-> FALSE, key |-> 0]

(***************************************************************************)
(* The except chain of apply_dispatch.                                     *)
(***************************************************************************)
\* ErrStatus with the statuses of the two authorization errors exchanged
ErrStatusAuthSwapped(kind) ==
    CASE kind = "NotFound" -> 404
      [] kind = "NotAuthorized" -> 401
      [] kind = "Forbidden" -> 403
      [] kind = "MissingParameter" -> 400
      [] kind = "BadRequest" -> 400
      [] kind = "MissingBody" -> 400
      [] kind = "ValueError" -> 400
      [] kind = "DispatchError" -> 404

ErrStatus(kind) ==
    CASE kind = "NotFound" -> 404
      [] kind = "NotAuthorized" -> 403
      [] kind = "Forbidden" -> 401
      [] kind = "MissingParameter" -> 400
      [] kind = "BadRequest" -> 400
      [] kind = "MissingBody" -> 400
      [] kind = "ValueError" -> 400
      [] kind = "DispatchError" -> 404

DefaultBody(kind) ==
    CASE kind = "NotFound" -> "Not found"
      [] kind = "NotAuthorized" -> "Not authorized"
      [] kind = "Forbidden" -> "Forbidden"
      [] kind = "MissingParameter" -> "Missing parameter"
      [] kind = "BadRequest" -> "Bad request"
      [] kind = "MissingBody" -> "Request is missing a body"
      [] kind = "ValueError" -> "Value error"

\* ErrBody without the fallback to the default phrase
ErrBodyMessageOnly(kind, msg) == msg

\* str(e) or '<default>'
ErrBody(kind, msg) == IF msg # "" THEN msg ELSE DefaultBody(kind)

\* ErrorResponse answering DispatchError with a JSON body holding its message
ErrorResponseDispatchBody(e) ==
    IF e.kind = "DispatchError"
    THEN Resp(2, ErrStatus(e.kind), e.msg, <<>>, "json")
    ELSE Resp(2, ErrStatus(e.kind), ErrBody(e.kind, e.msg), <<>>, "json")

\* the response an except clause of the table returns
ErrorResponse(e) ==
    IF e.kind = "DispatchError"
    THEN Resp(2, ErrStatus(e.kind), "", <<>>, "plain")
    ELSE Resp(2, ErrStatus(e.kind), ErrBody(e.kind, e.msg), <<>>, "json")

(***************************************************************************)
(* Collaborators: serializer, storage layer, pagination delegate.          *)
(***************************************************************************)
Ev(e, n) == [ev |-> e, n |-> n]

\* the wire representation the serializer gives an object
Wire(o) == 100 + o

\* serializer_class(objects, many=True).data
Serialize(objs) == [i \in 1..Len(objs) |-> Wire(objs[i])]

\* self.queryset evaluated against the storage layer: the stored objects in key order
QuerySet(st) ==
    CHOOSE s \in [1..Cardinality(st) -> st] :
        \A i, j \in 1..Cardinality(st) : i < j => s[i] < s[j]

\* the key the storage layer gives a new object on put()
NewKey(st) == CHOOSE k \in 1..(Cardinality(st) + 1) : k \notin st

NonePage == [isNone |-> TRUE, items |-> <<>>]

Page(items) == [isNone |-> FALSE, items |-> items]

\* paginator.paginate_queryset(queryset, request, view): a page (a slice of the
\* queryset) or None
DelegatePages(qs) ==
    {NonePage} \cup {Page(SubSeq(qs, a, b)) : a \in 1..(Len(qs) + 1), b \in 0..Len(qs)}

\* json.loads(body)
JsonLoads(body) ==
    IF body = "{n:1}" THEN [ok |-> TRUE, value |-> 1] ELSE [ok |-> FALSE, value |-> 0]

(***************************************************************************)
(* The generic resource actions.  Each yields what it returned or raised,  *)
(* the storage layer after it, and the collaborator calls it made.         *)
(***************************************************************************)
\* no call of an action
NoCall == [made |-> FALSE, positional |-> {}, hasKey |-> FALSE, key |-> 0]

Return(resp, st, evs) ==
    [raised |-> FALSE, resp |-> resp, exc |-> NoExc, store |-> st, events |-> evs,
     page |-> NonePage, action |-> "", call |-> NoCall]

Raise(e, st, evs) ==
    [raised |-> TRUE, resp |-> NoResp, exc |-> e, store |-> st, events |-> evs,
     page |-> NonePage, action |-> "", call |-> NoCall]

\* get_body without the final raise: what parsing gave is returned in every case
get_body_noraise(body) == [raised |-> FALSE, value |-> JsonLoads(body).value]

\* BaseHandler.get_body
get_body(body) ==
    IF body # "" /\ JsonLoads(body).ok
    THEN [raised |-> FALSE, value |-> JsonLoads(body).value]
    ELSE [raised |-> TRUE, value |-> 0]

\* APIModelBaseHandler.paginate_queryset
paginate_queryset(pag, delegatePage) ==
    IF pag = "none" THEN NonePage ELSE delegatePage

\* list serializing the whole queryset whatever paginate_queryset gave
list_whole(st, pag, delegatePage) ==
    [Return(Resp(1, 200, "", Serialize(QuerySet(st)), "plain"), st,
            <<Ev("action", 0), Ev("serialize", Cardinality(st))>>)
     EXCEPT !.page = paginate_queryset(pag, delegatePage)]

\* APIModelListHandler.list
list(st, pag, delegatePage) ==
    LET page == paginate_queryset(pag, delegatePage)
        called == IF pag = "none" THEN <<>> ELSE <<Ev("paginate", 0)>>
    IN IF ~page.isNone
       THEN [Return(Resp(1, 200, "", Serialize(page.items), "paginated"), st,
                    <<Ev("action", 0)>> \o called \o
                    <<Ev("serialize", Len(page.items)), Ev("paginated_response", 0)>>)
             EXCEPT !.page = page]
       ELSE [Return(Resp(1, 200, "", Serialize(QuerySet(st)), "plain"), st,
                    <<Ev("action", 0)>> \o called \o
                    <<Ev("serialize", Cardinality(st))>>)
             EXCEPT !.page = page]

\* APIModelCreateHandler.create
create(st, body) ==
    LET parsed == get_body(body)
        new == NewKey(st)
    IN IF parsed.raised
       THEN Raise(Exc("MissingBody", "Request is missing a body"), st,
                  <<Ev("action", 0), Ev("get_model_class", 0)>>)
       ELSE Return(Resp(1, 200, "", <<Wire(new)>>, "json"), st \cup {new},
                   <<Ev("action", 0), Ev("get_model_class", 0), Ev("deserialize", 0),
                     Ev("construct", new), Ev("put", new), Ev("serialize", 1)>>)

\* APIModelRetrieveHandler.retrieve
retrieve(st, hasKey, key, storageFails) ==
    IF ~hasKey
    THEN Raise(Exc("NotFound", ""), st, <<Ev("action", 0)>>)
    ELSE IF storageFails \/ key \notin st
    THEN Raise(Exc("NotFound", ""), st, <<Ev("action", 0), Ev("fetch", key)>>)
    ELSE Return(Resp(1, 200, "", <<Wire(key)>>, "json"), st,
                <<Ev("action", 0), Ev("fetch", key), Ev("serialize", 1)>>)

\* APIModelUpdateHandler.update
update(st) == Raise(Exc("Other", "NotImplementedError"), st, <<Ev("action", 0)>>)

\* APIModelPatchHandler.partial_update
partial_update(st) == Raise(Exc("Other", "NotImplementedError"), st, <<Ev("action", 0)>>)

\* APIModelDestroyHandler.destroy
destroy(st, hasKey, key, storageFails) ==
    IF ~hasKey
    THEN Raise(Exc("Other", "AttributeError"), st, <<Ev("action", 0)>>)
    ELSE IF storageFails
    THEN Raise(Exc("Other", "storage error"), st, <<Ev("action", 0), Ev("delete", key)>>)
    ELSE Return(Resp(1, 200, "", <<>>, "json"), st \ {key},
                <<Ev("action", 0), Ev("delete", key)>>)

\* the actions APIModelMixinHandler composes
HandlerActions == {"list", "create", "retrieve", "update", "partial_update", "destroy"}

\* args, kwargs = route_args, route_kwargs; if kwargs: args = ()
\* the names passed positionally after the handler itself (unpacking the dict
\* route_args with * passes its keys)
PositionalArgs(rargs, hasKey) == IF hasKey THEN {} ELSE DOMAIN rargs

\* the call method(self, *args, **kwargs): its positional and keyword arguments
CallOf(rargs, hasKey, key) ==
    [made |-> TRUE, positional |-> PositionalArgs(rargs, hasKey), hasKey |-> hasKey,
     key |-> IF hasKey THEN key ELSE 0]

\* method = getattr(self, name, None); method(self, *args, **kwargs)
Invoke(name, rargs, hasKey, key, req, st, pag, env) ==
    IF name \notin HandlerActions
    THEN [Raise(Exc("Other", "TypeError"), st, <<>>)
          EXCEPT !.call = CallOf(rargs, hasKey, key)]
    ELSE IF PositionalArgs(rargs, hasKey) # {}
    THEN [Raise(Exc("Other", "TypeError"), st, <<>>)
          EXCEPT !.call = CallOf(rargs, hasKey, key)]
    ELSE LET r == CASE name = "list" -> list(st, pag, env.page)
                    [] name = "create" -> create(st, req.body)
                    [] name = "retrieve" -> retrieve(st, hasKey, key, env.storageFails)
                    [] name = "update" -> update(st)
                    [] name = "partial_update" -> partial_update(st)
                    [] name = "destroy" -> destroy(st, hasKey, key, env.storageFails)
         IN [r EXCEPT !.action = name, !.call = CallOf(rargs, hasKey, key)]

\* InvalidUrlsafe raising into the except chain instead of returning
InvalidUrlsafeRaises(st) == Raise(Exc("BadRequest", "Given urlsafe is invalid"), st, <<>>)

\* return JsonResponse(status=400, data='Given urlsafe is invalid')
InvalidUrlsafe(st) == Return(Resp(1, 400, "Given urlsafe is invalid", <<>>, "json"), st, <<>>)

\* APIModelHandler.do_dispatch: what it returns or raises
do_dispatch(req, rx, urlList, st, pag, env) ==
    LET rargs == get_route_args(rx, req)
        m == MatchedUrl(urlList, req.path)
    IN IF m = 0
       THEN Raise(Exc("NotFound", "URL not found on this server"), st, <<>>)
       ELSE LET url == urlList[m]
                dec == DecodeKey(rargs)
            IN IF url.detail /\ ~dec.ok
               THEN InvalidUrlsafe(st)
               ELSE IF ~MethodAllowed(url, req.method)
               THEN Raise(Exc("DispatchError", "Invalid method"), st, <<>>)
               ELSE Invoke(url.mapping[Lower(req.method)], rargs, url.detail, dec.key,
                           req, st, pag, env)

(***************************************************************************)
(* The Object Locator, APIModelBaseHandler.get_object.                     *)
(***************************************************************************)
None == "None"

\* lookup_field or self.lookup_field / query_param or self.query_param
EffectiveField(arg, attr) == IF arg # None THEN arg ELSE attr

\* AllUnset with the test of the explicit key inverted
AllUnsetKeyInverted(lf, urlsafe, qp) == lf = None /\ urlsafe # None /\ qp = None

\* _lookup_field is None and urlsafe is None and _query_param is None
AllUnset(lf, urlsafe, qp) == lf = None /\ urlsafe = None /\ qp = None

\* UrlsafeFromRequest consulting the query parameter before the path parameter
UrlsafeFromRequestQueryFirst(lf, qp, rargs, get) ==
    IF qp # None
    THEN [value |-> IF qp \in DOMAIN get THEN get[qp] ELSE None, source |-> "query"]
    ELSE IF lf # None /\ lf \in DOMAIN rargs
    THEN [value |-> rargs[lf], source |-> "path"]
    ELSE [value |-> None, source |-> "none"]

\* the value taken from the request when no urlsafe is given: the path parameter
\* named by the lookup field, else the named query parameter, else None
UrlsafeFromRequest(lf, qp, rargs, get) ==
    IF lf # None /\ lf \in DOMAIN rargs
    THEN [value |-> rargs[lf], source |-> "path"]
    ELSE IF qp # None
    THEN [value |-> IF qp \in DOMAIN get THEN get[qp] ELSE None, source |-> "query"]
    ELSE [value |-> None, source |-> "none"]

\* helpers.get_object_from_urlsafe: decode the key and fetch the object (0 when the
\* storage layer holds no object under the key); raises on an undecodable key and on
\* a storage error
get_object_from_urlsafe(u, st, storageFails) ==
    IF u \notin ValidUrlsafe \/ storageFails
    THEN [raised |-> TRUE, object |-> 0]
    ELSE [raised |-> FALSE,
          object |-> IF get_key_from_urlsafe(u) \in st THEN get_key_from_urlsafe(u) ELSE 0]

\* the body of the try statement: what it leaves in _object, the exception it
\* raises, whether it returns early, the value it fetched with and its source
TryBody(urlsafe, lf, qp, raise_exception, rargs, get, st, storageFails) ==
    LET req == IF urlsafe = None
               THEN UrlsafeFromRequest(lf, qp, rargs, get)
               ELSE [value |-> urlsafe, source |-> "argument"]
        got == get_object_from_urlsafe(req.value, st, storageFails)
    IN IF req.value = None /\ ~raise_exception
       THEN [object |-> 0, pending |-> NoExc, returns |-> TRUE,
             fetched |-> None, source |-> req.source]
       ELSE IF req.value = None
       THEN [object |-> 0,
             pending |-> Exc("MissingParameter", IF lf # None THEN lf ELSE qp),
             returns |-> FALSE, fetched |-> None, source |-> req.source]
       ELSE IF got.raised
       THEN [object |-> 0, pending |-> Exc("Other", "decode or fetch failure"),
             returns |-> FALSE, fetched |-> req.value, source |-> req.source]
       ELSE [object |-> got.object, pending |-> NoExc, returns |-> FALSE,
             fetched |-> req.value, source |-> req.source]

\* except Exception as err: log; if raise_exception: raise NotFound
ExceptClause(pending, raise_exception) ==
    IF pending = NoExc THEN NoExc
    ELSE IF raise_exception THEN Exc("NotFound", "")
    ELSE NoExc

\* finally: return _object -- the return statement of the finally block ends the
\* call with _object and discards the exception in flight
FinallyReturn(pending, object) == [raised |-> NoExc, value |-> object]

\* APIModelBaseHandler.get_object: what the call raises or returns (0 for None),
\* the value it fetched with and where the value came from
get_object(urlsafe, query_param, lookup_field, raise_exception, class_lookup_field, class_query_param, rargs, get, st, storageFails) ==
    LET lf == EffectiveField(lookup_field, class_lookup_field)
        qp == EffectiveField(query_param, class_query_param)
        body == TryBody(urlsafe, lf, qp, raise_exception, rargs, get, st, storageFails)
        result == FinallyReturn(ExceptClause(body.pending, raise_exception), body.object)
    IN IF AllUnset(lf, urlsafe, qp)
       THEN [raised |-> IF raise_exception THEN Exc("BadRequest", "") ELSE NoExc,
             value |-> 0, fetched |-> None, source |-> "none", inTry |-> NoExc]
       ELSE [raised |-> result.raised, value |-> result.value,
             fetched |-> body.fetched, source |-> body.source, inTry |-> body.pending]

(***************************************************************************)
(* apply_dispatch, one step at a time.                                     *)
(***************************************************************************)
NoArgs == [n \in {} |-> ""]

NoInfo ==
    [outcome |-> "none", action |-> "", returned |-> NoResp, page |-> NonePage,
     storeBefore |-> {}, call |-> NoCall]

\* for middleware in self.middlewares (the loop over process_request)
BeforeHookAt(mws, i) == mws[i]

\* AfterHookAt iterating the list in reverse (stack-like unwinding)
AfterHookReversed(mws, i) == mws[Len(mws) + 1 - i]

\* for middleware in self.middlewares (the loop over process_response)
AfterHookAt(mws, i) == mws[i]

\* a process_request hook raises inside the try: control leaves the loop for the
\* except chain
BeforeHookRaised(i) == [pc |-> "error", idx |-> i]

\* a process_response hook raises inside the try: control leaves the loop for the
\* except chain
AfterHookRaised(i) == [pc |-> "error", idx |-> i]

\* IteratedList taking the hook's middleware off the front and re-appending it
IteratedListRotated(mws) == IF mws = <<>> THEN mws ELSE Tail(mws) \o <<Head(mws)>>

\* self.middlewares after a step of a for loop over it: the loops only read it
IteratedList(mws) == mws

\* get_middlewares(): the middleware instances in registration order
Registration == [i \in 1..NumMiddlewares |-> i]

\* what a middleware hook may raise
HookExceptions == {Exc(k, m) : k \in Kinds, m \in Messages}

\* what the collaborators may do during one do_dispatch
Envs(st) == [page : DelegatePages(QuerySet(st)), storageFails : BOOLEAN]

\* the object a process_response hook returns when it builds a new response
Replacement(mw, resp) == [resp EXCEPT !.id = 10 + mw, !.text = "replaced"]

\* middleware.process_response(self.request, response): the response apply_dispatch
\* holds after the call, given the one it held and what the hook returned
AfterResult(resp, ret) == resp

\* no call of get_object
NoLoc ==
    [urlsafe |-> None, query_param |-> None, lookup_field |-> None,
     raise_exception |-> TRUE, class_lookup_field |-> None, class_query_param |-> None,
     get |-> NoArgs, storageFails |-> FALSE, called |-> FALSE,
     raised |-> NoExc, value |-> 0, fetched |-> None, source |-> "none", inTry |-> NoExc]

\* no second dispatch
NoOther == [pc |-> "none", idx |-> 1, seen |-> <<>>]

Init ==
    /\ middlewares = Registration
    /\ request \in [method : Methods, path : Paths, body : Bodies]
    /\ routeRegex \in {rx \in TransportRegexes : ReMatch(rx, request.path)}
    /\ urls \in UrlTables
    /\ pagination_class \in {"none", "paginator"}
    /\ store \in SUBSET (1..MaxObj)
    /\ pc = "before"
    /\ idx = 1
    /\ route_args = NoArgs
    /\ response = NoResp
    /\ exc = NoExc
    /\ trace = <<>>
    /\ received = <<>>
    /\ hookRet = <<>>
    /\ info = NoInfo
    /\ loc = NoLoc
    /\ other = NoOther

\* for middleware in self.middlewares: middleware.process_request(self.request)
ProcessRequest ==
    /\ pc = "before"
    /\ idx <= Len(middlewares)
    /\ \E o \in {NoExc} \cup HookExceptions :
          /\ trace' = Append(trace, Ev("before", BeforeHookAt(middlewares, idx)))
          /\ IF o = NoExc
             THEN /\ idx' = idx + 1
                  /\ UNCHANGED <<pc, exc>>
             ELSE /\ pc' = BeforeHookRaised(idx).pc
                  /\ idx' = BeforeHookRaised(idx).idx
                  /\ exc' = o
    /\ middlewares' = IteratedList(middlewares)
    /\ UNCHANGED <<request, routeRegex, urls, pagination_class, store,
                   route_args, response, received, hookRet, info>>
    /\ UNCHANGED <<loc, other>>

\* self.route_args = self.get_route_args()
GetRouteArgs ==
    /\ pc = "before"
    /\ idx > Len(middlewares)
    /\ route_args' = get_route_args(routeRegex, request)
    /\ pc' = "do_dispatch"
    /\ UNCHANGED <<middlewares, request, routeRegex, urls, pagination_class, store,
                   idx, response, exc, trace, received, hookRet, info>>
    /\ UNCHANGED <<loc, other>>

\* response = self.do_dispatch()
DoDispatch ==
    /\ pc = "do_dispatch"
    /\ \E env \in Envs(store) :
          LET r == do_dispatch(request, routeRegex, urls, store, pagination_class, env)
          IN /\ store' = r.store
             /\ trace' = trace \o r.events
             /\ info' = [outcome |-> IF r.raised THEN "raised" ELSE "returned",
                         action |-> r.action, returned |-> r.resp,
                         page |-> r.page, storeBefore |-> store, call |-> r.call]
             /\ IF r.raised
                THEN /\ pc' = "error"
                     /\ exc' = r.exc
                     /\ UNCHANGED <<response, idx>>
                ELSE /\ pc' = "after"
                     /\ idx' = 1
                     /\ response' = r.resp
                     /\ UNCHANGED exc
    /\ UNCHANGED <<middlewares, request, routeRegex, urls, pagination_class,
                   route_args, received, hookRet>>
    /\ UNCHANGED <<loc, other>>

\* for middleware in self.middlewares: middleware.process_response(self.request, response)
ProcessResponse ==
    /\ pc = "after"
    /\ idx <= Len(middlewares)
    /\ \E o \in {NoExc} \cup HookExceptions, what \in {"none", "mutate", "replace"} :
          /\ o # NoExc => what = "none"
          /\ trace' = Append(trace, Ev("after", AfterHookAt(middlewares, idx)))
          /\ received' = Append(received, response)
          /\ IF o = NoExc
             THEN LET given == IF what = "mutate"
                               THEN [response EXCEPT !.marks = @ \cup {AfterHookAt(middlewares, idx)}]
                               ELSE response
                      ret == IF what = "replace"
                             THEN Replacement(AfterHookAt(middlewares, idx), given)
                             ELSE NoResp
                  IN /\ response' = AfterResult(given, ret)
                     /\ hookRet' = Append(hookRet, ret)
                     /\ idx' = idx + 1
                     /\ UNCHANGED <<pc, exc>>
             ELSE /\ pc' = AfterHookRaised(idx).pc
                  /\ idx' = AfterHookRaised(idx).idx
                  /\ exc' = o
                  /\ UNCHANGED <<response, hookRet>>
    /\ middlewares' = IteratedList(middlewares)
    /\ UNCHANGED <<request, routeRegex, urls, pagination_class, store,
                   route_args, info>>
    /\ UNCHANGED <<loc, other>>

\* return response
ReturnResponse ==
    /\ pc = "after"
    /\ idx > Len(middlewares)
    /\ pc' = "responded"
    /\ UNCHANGED <<middlewares, request, routeRegex, urls, pagination_class, store,
                   idx, route_args, response, exc, trace, received, hookRet, info>>
    /\ UNCHANGED <<loc, other>>

\* except NotFound ... except DispatchError: return the mapped response
TranslateError ==
    /\ pc = "error"
    /\ exc.kind \in TableKinds
    /\ response' = ErrorResponse(exc)
    /\ pc' = "responded"
    /\ UNCHANGED <<middlewares, request, routeRegex, urls, pagination_class, store,
                   idx, route_args, exc, trace, received, hookRet, info>>
    /\ UNCHANGED <<loc, other>>

\* self.handle_exception(err, self.app.debug): the framework's handler returns a
\* response, or re-raises the exception (its default)
FrameworkOutcomes == {"returns", "reraises"}

\* except Exception as err: log; return self.handle_exception(err, self.app.debug)
HandleException ==
    /\ pc = "error"
    /\ exc.kind \notin TableKinds
    /\ \E outcome \in FrameworkOutcomes :
          IF outcome = "returns"
          THEN /\ response' = Resp(3, 500, "", <<>>, "framework")
               /\ pc' = "responded"
          ELSE /\ response' = NoResp
               /\ pc' = "propagated"
    /\ trace' = Append(trace, Ev("log", 0))
    /\ UNCHANGED <<middlewares, request, routeRegex, urls, pagination_class, store,
                   idx, route_args, exc, received, hookRet, info>>
    /\ UNCHANGED <<loc, other>>

Next ==
    \/ ProcessRequest
    \/ GetRouteArgs
    \/ DoDispatch
    \/ ProcessResponse
    \/ ReturnResponse
    \/ TranslateError
    \/ HandleException

Spec == Init /\ [][Next]_vars

(***************************************************************************)
(* Two dispatches interleaved on the same cached middleware list.  The     *)
(* second one is followed through its two loops over the list, its only    *)
(* accesses to state shared between dispatches.                            *)
(***************************************************************************)
ConcInit ==
    /\ middlewares = Registration
    /\ request \in [method : {"GET", "PUT"}, path : {<<"r">>, <<"r", "k1">>}, body : {""}]
    /\ routeRegex \in {rx \in TransportRegexes : ReMatch(rx, request.path)}
    /\ urls = <<CollectionRoute, DetailRoute>>
    /\ pagination_class = "none"
    /\ store = {1}
    /\ pc = "before"
    /\ idx = 1
    /\ route_args = NoArgs
    /\ response = NoResp
    /\ exc = NoExc
    /\ trace = <<>>
    /\ received = <<>>
    /\ hookRet = <<>>
    /\ info = NoInfo
    /\ loc = NoLoc
    /\ other = [pc |-> "before", idx |-> 1, seen |-> <<>>]

\* one step of the second apply_dispatch: a hook call of one of its two loops, or
\* its passage from one loop to the next
OtherDispatchStep ==
    /\ other.pc \in {"before", "after"}
    /\ IF other.idx <= Len(middlewares)
       THEN /\ other' = [other EXCEPT
                            !.seen = Append(@, IF other.pc = "before"
                                               THEN BeforeHookAt(middlewares, other.idx)
                                               ELSE AfterHookAt(middlewares, other.idx)),
                            !.idx = @ + 1]
            /\ middlewares' = IteratedList(middlewares)
       ELSE /\ other' = [other EXCEPT
                            !.pc = IF other.pc = "before" THEN "after" ELSE "done",
                            !.idx = 1]
            /\ UNCHANGED middlewares
    /\ UNCHANGED <<request, routeRegex, urls, pagination_class, store, pc, idx,
                   route_args, response, exc, trace, received, hookRet, info, loc>>

ConcNext ==
    \/ ProcessRequest
    \/ GetRouteArgs
    \/ DoDispatch
    \/ ProcessResponse
    \/ ReturnResponse
    \/ TranslateError
    \/ HandleException
    \/ OtherDispatchStep

ConcSpec == ConcInit /\ [][ConcNext]_vars

(***************************************************************************)
(* get_object applied to every combination of arguments, class attributes, *)
(* route arguments, query string and storage state.                        *)
(***************************************************************************)
LocatorRouteArgs == {NoArgs, [n \in {"urlsafe"} |-> "k1"], [n \in {"urlsafe"} |-> "bad"]}

LocatorQueries == {NoArgs, [n \in {"key"} |-> "k2"], [n \in {"key"} |-> "bad"]}

LocatorInit ==
    /\ middlewares = Registration
    /\ request = [method |-> "GET", path |-> <<"r">>, body |-> ""]
    /\ routeRegex = Rx(<<Lit("r")>>, TRUE)
    /\ urls = <<>>
    /\ pagination_class = "none"
    /\ store \in SUBSET (1..MaxObj)
    /\ pc = "handler"
    /\ idx = 1
    /\ route_args \in LocatorRouteArgs
    /\ response = NoResp
    /\ exc = NoExc
    /\ trace = <<>>
    /\ received = <<>>
    /\ hookRet = <<>>
    /\ info = NoInfo
    /\ other = NoOther
    /\ \E u \in {None, "k1", "k2", "bad"}, qp \in {None, "key"}, lf \in {None, "urlsafe"},
          re \in BOOLEAN, clf \in {None, "urlsafe"}, cqp \in {None, "key"},
          g \in LocatorQueries, f \in BOOLEAN :
          loc = [NoLoc EXCEPT !.urlsafe = u, !.query_param = qp, !.lookup_field = lf,
                              !.raise_exception = re, !.class_lookup_field = clf,
                              !.class_query_param = cqp, !.get = g, !.storageFails = f]

\* self.get_object(urlsafe, query_param, lookup_field, raise_exception)
GetObject ==
    /\ pc = "handler"
    /\ ~loc.called
    /\ LET r == get_object(loc.urlsafe, loc.query_param, loc.lookup_field,
                           loc.raise_exception, loc.class_lookup_field,
                           loc.class_query_param, route_args, loc.get, store,
                           loc.storageFails)
       IN loc' = [loc EXCEPT !.called = TRUE, !.raised = r.raised, !.value = r.value,
                             !.fetched = r.fetched, !.source = r.source,
                             !.inTry = r.inTry]
    /\ UNCHANGED <<middlewares, request, routeRegex, urls, pagination_class, store, pc,
                   idx, route_args, response, exc, trace, received, hookRet, info, other>>

LocatorNext == GetObject

LocatorSpec == LocatorInit /\ [][LocatorNext]_vars

(***************************************************************************)
(* Properties.                                                             *)
(***************************************************************************)
Running == pc \in {"before", "do_dispatch", "after", "error"}

HappyReturn == pc = "responded" /\ exc = NoExc

HasEvent(e) == \E p \in 1..Len(trace) : trace[p].ev = e

\* C1: every run of apply_dispatch ends by returning a response object: whatever
\* step raises and whatever it raises, no exception propagates out of
\* apply_dispatch, and the run ends RESPONDED with a response.
C1_AlwaysResponds == ~Running => (pc = "responded" /\ response # NoResp)

\* C2: the status of the response to an exception of the table is the one the
\* table gives its kind (NotFound 404, NotAuthorized 403, Forbidden 401,
\* MissingParameter, BadRequest, MissingBody and ValueError 400, DispatchError 404
\* with an empty body).
C2_StatusByKind ==
    (pc = "responded" /\ exc.kind \in TableKinds) =>
        /\ exc.kind = "NotFound" => response.status = 404
        /\ exc.kind = "NotAuthorized" => response.status = 403
        /\ exc.kind = "Forbidden" => response.status = 401
        /\ exc.kind = "MissingParameter" => response.status = 400
        /\ exc.kind = "BadRequest" => response.status = 400
        /\ exc.kind = "MissingBody" => response.status = 400
        /\ exc.kind = "ValueError" => response.status = 400
        /\ exc.kind = "DispatchError" =>
              response.status = 404 /\ response.text = "" /\ response.data = <<>>

C2_Witness ==
    /\ pc = "responded"
    /\ exc.kind = "Forbidden"
    /\ response.status = 401
    /\ HasEvent("action")

\* C3: the body of the response to an exception of a kind with a default body is
\* the exception's message when it is not empty, and the kind's fixed phrase when
\* it is empty.
C3_BodyMessageOrDefault ==
    (pc = "responded" /\ exc.kind \in TableKinds \ {"DispatchError"}) =>
        /\ exc.msg # "" => response.text = exc.msg
        /\ exc.msg = "" =>
              /\ exc.kind = "NotFound" => response.text = "Not found"
              /\ exc.kind = "NotAuthorized" => response.text = "Not authorized"
              /\ exc.kind = "Forbidden" => response.text = "Forbidden"
              /\ exc.kind = "MissingParameter" => response.text = "Missing parameter"
              /\ exc.kind = "BadRequest" => response.text = "Bad request"
              /\ exc.kind = "MissingBody" => response.text = "Request is missing a body"
              /\ exc.kind = "ValueError" => response.text = "Value error"

C3_Witness ==
    /\ pc = "responded"
    /\ exc = Exc("NotFound", "")
    /\ info.action = "retrieve"
    /\ response.text = "Not found"

PosOf(e, n) == {p \in 1..Len(trace) : trace[p] = Ev(e, n)}

\* C4: in a dispatch that reaches the action every before hook has run, once and
\* in registration order, before the action starts; after hooks run only after
\* do_dispatch has returned its result, once each and in registration order, and
\* all of them have run when apply_dispatch returns that result.
C4_HookOrder ==
    /\ HasEvent("action") =>
          \A i \in 1..Len(middlewares) :
              /\ Cardinality(PosOf("before", middlewares[i])) = 1
              /\ \A p \in PosOf("before", middlewares[i]) :
                    /\ \A a \in PosOf("action", 0) : p < a
                    /\ i > 1 => \A q \in PosOf("before", middlewares[i - 1]) : q < p
    /\ \A i \in 1..Len(middlewares) :
          /\ Cardinality(PosOf("after", middlewares[i])) <= 1
          /\ \A p \in PosOf("after", middlewares[i]) :
                /\ info.outcome = "returned"
                /\ \A a \in PosOf("action", 0) : a < p
                /\ \A j \in 1..Len(middlewares) :
                      \A b \in PosOf("before", middlewares[j]) : b < p
                /\ i > 1 => \E q \in PosOf("after", middlewares[i - 1]) : q < p
    /\ HappyReturn =>
          \A i \in 1..Len(middlewares) : Cardinality(PosOf("after", middlewares[i])) = 1

C4_Witness ==
    /\ HappyReturn
    /\ HasEvent("action")
    /\ \A i \in 1..Len(middlewares) :
          PosOf("before", middlewares[i]) # {} /\ PosOf("after", middlewares[i]) # {}

\* C5: when an after hook returns a response other than the one it was given, that
\* replacement is what the following after hooks receive and what apply_dispatch
\* returns.
C5_ReplacementIsReturned ==
    \A i \in 1..Len(hookRet) :
        hookRet[i] # NoResp =>
            /\ i < Len(received) => received[i + 1].id = hookRet[i].id
            /\ (HappyReturn /\ \A j \in (i + 1)..Len(hookRet) : hookRet[j] = NoResp)
                  => response.id = hookRet[i].id

FirstMatch(i) ==
    /\ i \in 1..Len(urls)
    /\ ReMatch(urls[i].regex, request.path)
    /\ \A j \in 1..(i - 1) : ~ReMatch(urls[j].regex, request.path)

KeyDecodes == "urlsafe" \in DOMAIN route_args /\ route_args["urlsafe"] \in ValidUrlsafe

Dispatched == info.outcome # "none"

\* C6: when do_dispatch runs on a request whose path matches no registered route,
\* the dispatch answers 404 with the message 'URL not found on this server' and
\* executes no action.
C6_NoRouteIs404 ==
    (Dispatched /\ \A i \in 1..Len(urls) : ~ReMatch(urls[i].regex, request.path)) =>
        /\ info.outcome = "raised"
        /\ pc \in {"error", "responded"}
        /\ exc = Exc("NotFound", "URL not found on this server")
        /\ ~HasEvent("action")
        /\ store = info.storeBefore
        /\ pc = "responded" =>
              response.status = 404 /\ response.text = "URL not found on this server"

C6_Witness ==
    /\ pc = "responded"
    /\ Len(urls) > 0
    /\ \A i \in 1..Len(urls) : ~ReMatch(urls[i].regex, request.path)
    /\ response.status = 404

\* C7 as stated: for every matched route, detail or collection, and every method
\* whose lowercased name is no key of its mapping, the dispatch answers 404 with
\* an empty body and executes no action.
C7_UnmappedMethodIs404 ==
    \A i \in 1..Len(urls) :
        (Dispatched /\ FirstMatch(i) /\ Lower(request.method) \notin DOMAIN urls[i].mapping) =>
            /\ info.outcome = "raised"
            /\ exc.kind = "DispatchError"
            /\ ~HasEvent("action")
            /\ pc = "responded" =>
                  response.status = 404 /\ response.text = "" /\ response.data = <<>>

\* C7 amended: for every matched collection route, and every matched detail route
\* whose urlsafe parameter decodes, a method whose lowercased name is no key of the
\* route's mapping is answered 404 with an empty body, and no action is executed.
C7_UnmappedMethodIs404_Decoded ==
    \A i \in 1..Len(urls) :
        (/\ Dispatched
         /\ FirstMatch(i)
         /\ Lower(request.method) \notin DOMAIN urls[i].mapping
         /\ urls[i].detail => KeyDecodes) =>
            /\ info.outcome = "raised"
            /\ pc \in {"error", "responded"}
            /\ exc.kind = "DispatchError"
            /\ ~HasEvent("action")
            /\ store = info.storeBefore
            /\ pc = "responded" =>
                  response.status = 404 /\ response.text = "" /\ response.data = <<>>

C7_Witness ==
    /\ pc = "responded"
    /\ exc.kind = "DispatchError"
    /\ request.method = "DELETE"
    /\ \E i \in 1..Len(urls) : FirstMatch(i) /\ urls[i].detail /\ KeyDecodes
    /\ response.status = 404

\* C8: on a matched detail route whose urlsafe parameter fails to decode,
\* do_dispatch itself returns 400 'Given urlsafe is invalid' (nothing is raised
\* into the except chain), whatever the method and the mapping, no action is
\* executed, and this is the response apply_dispatch returns.
C8_InvalidUrlsafeIs400 ==
    \A i \in 1..Len(urls) :
        (Dispatched /\ FirstMatch(i) /\ urls[i].detail /\ ~KeyDecodes) =>
            /\ info.outcome = "returned"
            /\ info.returned.status = 400
            /\ info.returned.text = "Given urlsafe is invalid"
            /\ ~HasEvent("action")
            /\ store = info.storeBefore
            /\ pc = "after" => exc = NoExc
            /\ (pc = "after" \/ HappyReturn) =>
                  /\ response.id = info.returned.id
                  /\ response.status = 400
                  /\ response.text = "Given urlsafe is invalid"

C8_Witness ==
    /\ HappyReturn
    /\ \E i \in 1..Len(urls) :
          /\ FirstMatch(i)
          /\ urls[i].detail
          /\ Lower(request.method) \notin DOMAIN urls[i].mapping
    /\ "urlsafe" \in DOMAIN route_args
    /\ route_args["urlsafe"] = "bad"
    /\ response.status = 400

\* C9: create with an absent or unparseable body ends the dispatch with 400
\* 'Request is missing a body'; the serializer is not invoked and no object is
\* constructed or put in the storage layer.
C9_CreateWithoutBody ==
    (info.action = "create" /\ (request.body = "" \/ ~JsonLoads(request.body).ok)) =>
        /\ info.outcome = "raised"
        /\ pc \in {"error", "responded"}
        /\ exc = Exc("MissingBody", "Request is missing a body")
        /\ ~HasEvent("deserialize")
        /\ ~HasEvent("serialize")
        /\ ~HasEvent("construct")
        /\ ~HasEvent("put")
        /\ store = info.storeBefore
        /\ pc = "responded" =>
              response.status = 400 /\ response.text = "Request is missing a body"

C9_Witness ==
    /\ pc = "responded"
    /\ info.action = "create"
    /\ request.body = "not-json"
    /\ response.status = 400

\* C10 as stated: list returns the serialization of the whole queryset when no
\* pagination strategy is configured, and with a strategy configured it returns
\* the delegate's paginated response over one serialized page, never the whole
\* queryset.
C10_ListPaginates ==
    (info.action = "list" /\ info.outcome = "returned") =>
        IF pagination_class = "none"
        THEN /\ info.returned.kind = "plain"
             /\ info.returned.data = Serialize(QuerySet(info.storeBefore))
        ELSE /\ info.returned.kind = "paginated"
             /\ ~info.page.isNone
             /\ info.returned.data = Serialize(info.page.items)

\* C10 amended: list returns the serialization of the whole queryset when no
\* strategy is configured or the delegate gives no page (None), and the delegate's
\* paginated response over the serialized page when the delegate gives a page.
C10_ListPaginatesWhenPageGiven ==
    (info.action = "list" /\ info.outcome # "none") =>
        /\ info.outcome = "returned"
        /\ pagination_class = "none" => info.page.isNone
        /\ IF info.page.isNone
           THEN /\ info.returned.kind = "plain"
                /\ info.returned.data = Serialize(QuerySet(info.storeBefore))
           ELSE /\ info.returned.kind = "paginated"
                /\ info.returned.data = Serialize(info.page.items)
        /\ (pc = "after" \/ HappyReturn) =>
              response.data = info.returned.data /\ response.kind = info.returned.kind

C10_Witness ==
    /\ HappyReturn
    /\ info.action = "list"
    /\ pagination_class = "paginator"
    /\ ~info.page.isNone
    /\ Len(info.page.items) = 1
    /\ Cardinality(info.storeBefore) = 2
    /\ response.data = <<Wire(2)>>

(***************************************************************************)
(* Properties of get_object (LocatorSpec).                                 *)
(***************************************************************************)
LocField == EffectiveField(loc.lookup_field, loc.class_lookup_field)

LocQuery == EffectiveField(loc.query_param, loc.class_query_param)

LocAllUnset ==
    /\ loc.urlsafe = None
    /\ loc.lookup_field = None /\ loc.class_lookup_field = None
    /\ loc.query_param = None /\ loc.class_query_param = None

LocPathValue == LocField # None /\ LocField \in DOMAIN route_args

LocQueryValue == LocQuery # None /\ LocQuery \in DOMAIN loc.get

\* C11: called with raise_exception = true, get_object surfaces any decode or
\* fetch failure of the key (invalid key, storage error) as NotFound, never as a
\* silent null.
C11_FailureRaisesNotFound ==
    (/\ loc.called
     /\ loc.raise_exception
     /\ loc.fetched # None
     /\ loc.fetched \notin ValidUrlsafe \/ loc.storageFails) =>
        loc.raised.kind = "NotFound"

\* C12: called without an explicit key, when neither the path parameter named by
\* the lookup field nor the named query parameter yields a value, get_object
\* returns null if raise_exception is false and raises MissingParameter naming
\* the attempted field otherwise.
C12_MissingValue ==
    (/\ loc.called
     /\ loc.urlsafe = None
     /\ ~LocAllUnset
     /\ ~LocPathValue
     /\ ~LocQueryValue) =>
        IF loc.raise_exception
        THEN /\ loc.raised.kind = "MissingParameter"
             /\ loc.raised.msg = (IF LocField # None THEN LocField ELSE LocQuery)
        ELSE loc.raised = NoExc /\ loc.value = 0

\* C16: when the effective lookup field, the explicit key and the effective query
\* parameter are all unset, get_object raises BadRequest if raise_exception is
\* true and returns null otherwise, and attempts no decode or fetch.
C16_AllUnset ==
    (loc.called /\ LocAllUnset) =>
        /\ loc.raise_exception => loc.raised.kind = "BadRequest"
        /\ ~loc.raise_exception => (loc.raised = NoExc /\ loc.value = 0)
        /\ loc.fetched = None
        /\ loc.inTry = NoExc

C16_Witness ==
    /\ loc.called
    /\ LocAllUnset
    /\ loc.raise_exception
    /\ loc.raised.kind = "BadRequest"
    /\ route_args # NoArgs

\* C17: an explicit key takes precedence; without one the value is the path
\* parameter named by the lookup field if route_args has it, else the named query
\* parameter if a query parameter name is set, else there is none; the query
\* parameter is not consulted when the path parameter is present.
C17_Precedence ==
    (loc.called /\ ~LocAllUnset) =>
        /\ loc.urlsafe # None =>
              loc.source = "argument" /\ loc.fetched = loc.urlsafe
        /\ (loc.urlsafe = None /\ LocPathValue) =>
              loc.source = "path" /\ loc.fetched = route_args[LocField]
        /\ (loc.urlsafe = None /\ ~LocPathValue /\ LocQuery # None) =>
              /\ loc.source = "query"
              /\ loc.fetched = (IF LocQueryValue THEN loc.get[LocQuery] ELSE None)
        /\ (loc.urlsafe = None /\ ~LocPathValue /\ LocQuery = None) =>
              loc.source = "none" /\ loc.fetched = None
        /\ (loc.fetched \in ValidUrlsafe /\ ~loc.storageFails) =>
              loc.value = (IF get_key_from_urlsafe(loc.fetched) \in store
                           THEN get_key_from_urlsafe(loc.fetched) ELSE 0)

C17_Witness ==
    /\ loc.called
    /\ loc.urlsafe = None
    /\ LocPathValue
    /\ LocQueryValue
    /\ loc.source = "path"
    /\ loc.fetched = "k1"
    /\ loc.value = 1

(***************************************************************************)
(* The dispatch pipeline: preflight, hooks that raise, routing, the call.  *)
(***************************************************************************)
\* C13: a request of method OPTIONS whose path matches a route of the handler is
\* answered by the CORS response, and no routed action runs.
C13_OptionsIsCors ==
    (Dispatched /\ request.method = "OPTIONS" /\ \E i \in 1..Len(urls) : FirstMatch(i)) =>
        /\ info.outcome = "returned"
        /\ info.returned.kind = "cors"
        /\ info.action = ""

\* the before hooks that ran
BeforeRan == {p \in 1..Len(trace) : trace[p].ev = "before"}

\* the exception in flight was raised by a before hook: do_dispatch never started
BeforeHookFailed == exc # NoExc /\ info.outcome = "none"

\* the chain stops at the before hook that raised: the hooks up to it ran once each
\* in registration order and their record stays, no later before hook runs, the
\* route arguments are not resolved, no action and no after hook runs
C14_ChainAborted ==
    BeforeHookFailed =>
        LET k == Cardinality(BeforeRan)
        IN /\ k >= 1
           /\ pc \in {"error", "responded", "propagated"}
           /\ \A j \in 1..Len(middlewares) :
                 /\ j <= k => trace[j] = Ev("before", middlewares[j])
                 /\ j > k => PosOf("before", middlewares[j]) = {}
           /\ route_args = NoArgs
           /\ info = NoInfo
           /\ ~HasEvent("action")
           /\ ~HasEvent("after")
           /\ received = <<>>

\* C14: when the before hook of a middleware raises, the chain stops there (no later
\* before hook, no route resolution, no action, the earlier hooks' effects stay) and
\* the run ends by returning the response the except chain maps the exception to.
C14_BeforeRaiseAborts ==
    /\ C14_ChainAborted
    /\ (BeforeHookFailed /\ ~Running) =>
          /\ pc = "responded"
          /\ response # NoResp
          /\ response.id \in {2, 3}

\* C15: the first registered route whose regex matches the path decides everything:
\* the invalid-key answer of a detail route, the method check, whether a key is
\* passed and which action is called; a later matching route is never consulted.
C15_FirstMatchWins ==
    \A i \in 1..Len(urls) :
        (Dispatched /\ FirstMatch(i)) =>
            IF urls[i].detail /\ ~KeyDecodes
            THEN /\ info.outcome = "returned"
                 /\ info.returned.status = 400
                 /\ ~info.call.made
            ELSE IF ~MethodAllowed(urls[i], request.method)
            THEN /\ info.outcome = "raised"
                 /\ exc.kind = "DispatchError"
                 /\ ~info.call.made
            ELSE /\ info.call.made
                 /\ info.call.hasKey = urls[i].detail
                 /\ info.action # "" => info.action = urls[i].mapping[Lower(request.method)]

C15_Witness ==
    \E i, j \in 1..Len(urls) :
        /\ FirstMatch(i)
        /\ i < j
        /\ ReMatch(urls[j].regex, request.path)
        /\ ~MethodAllowed(urls[i], request.method)
        /\ MethodAllowed(urls[j], request.method)
        /\ ~(urls[i].detail /\ ~KeyDecodes)
        /\ info.outcome = "raised"
        /\ exc.kind = "DispatchError"
        /\ pc = "responded"

\* the captured values of the route arguments
RouteArgValues == {route_args[n] : n \in DOMAIN route_args}

\* C18: a call of a handler action on a detail route passes the decoded key by
\* keyword and nothing positional; on a collection route it passes the captured
\* route arguments positionally and no key, and the action runs with them.
C18_EitherOrCall ==
    \A i \in 1..Len(urls) :
        (FirstMatch(i) /\ info.call.made
           /\ urls[i].mapping[Lower(request.method)] \in HandlerActions) =>
            IF urls[i].detail
            THEN /\ info.call.hasKey
                 /\ info.call.key = get_key_from_urlsafe(route_args["urlsafe"])
                 /\ info.call.positional = {}
            ELSE /\ ~info.call.hasKey
                 /\ info.call.positional = RouteArgValues
                 /\ info.action # ""

\* the hook calls of the first dispatch, in the order they were made
RECURSIVE HookCalls(_)
HookCalls(t) ==
    IF t = <<>> THEN <<>>
    ELSE IF Head(t).ev \in {"before", "after"}
    THEN <<Head(t).n>> \o HookCalls(Tail(t))
    ELSE HookCalls(Tail(t))

\* s is the beginning of t
IsPrefix(s, t) == Len(s) <= Len(t) /\ \A p \in 1..Len(s) : s[p] = t[p]

\* what a dispatch that runs both loops to the end calls: the registered middlewares
\* in order, twice
BothLoops == Registration \o Registration

\* C19: no step of a dispatch, on the happy path or on an error path, changes the
\* cached middleware list, and two dispatches interleaved step by step both call
\* the hooks in registration order.
C19_ListNeverMutated ==
    /\ [][middlewares' = middlewares]_vars
    /\ [](/\ middlewares = Registration
          /\ IsPrefix(other.seen, BothLoops)
          /\ IsPrefix(HookCalls(trace), BothLoops))

C19_Witness ==
    /\ other.pc = "after"
    /\ other.idx = 2
    /\ pc = "error"
    /\ info.outcome = "returned"
    /\ Len(received) = 1
    /\ middlewares = Registration

\* the exception in flight was raised by an after hook: do_dispatch had returned
AfterHookFailed == exc # NoExc /\ info.outcome = "returned"

\* after hooks are called only with what do_dispatch returned normally, the local
\* 400 included, never with a response of the except chain; an after hook that
\* raises ends the loop and the response do_dispatch returned is not the answer
C20_AfterHooksOnReturned ==
    /\ HasEvent("after") => info.outcome = "returned"
    /\ \A p \in 1..Len(received) : received[p].id \notin {2, 3}
    /\ Len(received) >= 1 => received[1] = info.returned
    /\ (info.outcome = "returned" /\ ~Running /\ Len(middlewares) >= 1) =>
          Len(received) >= 1
    /\ exc # NoExc => pc \in {"error", "responded", "propagated"}
    /\ AfterHookFailed =>
          /\ Len(received) = Len(hookRet) + 1
          /\ \A j \in 1..Len(middlewares) :
                j > Len(received) => PosOf("after", middlewares[j]) = {}
          /\ pc = "responded" => response.id \in {2, 3}

\* C20: after hooks run exactly on the responses do_dispatch returned normally (the
\* local 400 'Given urlsafe is invalid' included), a response of the except chain
\* is never given to an after hook, and when an after hook raises the remaining
\* after hooks are skipped and the run ends by returning the mapped error response
\* in place of the action's response.
C20_AfterRaiseAnswersError ==
    /\ C20_AfterHooksOnReturned
    /\ (AfterHookFailed /\ ~Running) =>
          /\ pc = "responded"
          /\ response # NoResp
          /\ response.id \in {2, 3}


=============================================================================
